---- MODULE Spec2Model ----
(***************************************************************************)
(* A model of src/src/App.jsx: the App component of a browser MQTT client. *)
(*                                                                         *)
(* The state is the component's hooks (useState, useRef) and, for every    *)
(* handle mqtt.connect has returned, the library's side of it.  There is   *)
(* one action per handler: the buttons, the broker URL input, and the      *)
(* callbacks connect() registers on the handle.  The handlers of a handle  *)
(* are never removed, so they run whenever the library emits the event.    *)
(*                                                                         *)
(* Strings that the code inspects character by character (the broker URL,  *)
(* payloads, error messages) are sequences of one-character strings.       *)
(* A JavaScript number is [nan, m, e]: NaN, or the decimal m * 10^e in     *)
(* normal form (m not divisible by 10; zero is m = 0, e = 0).  Binary      *)
(* floating point rounding is not modelled.                                *)
(*                                                                         *)
(* Not modelled: the topic input, whose text only goes into the subscribe  *)
(* call and one status message, and the rendering (SoundChart, the JSX).   *)
(***************************************************************************)
EXTENDS Integers, Sequences, FiniteSets, TLC

\* ------------------------------------------------------------------------
\* Bounds of the model (not program constants).

\* mqtt.connect calls in one run.
MaxHandles == 2

\* Samples the series holds before message processing is cut off.
MaxSeries == 2

\* The latest time the wall clock shows.
MaxTime == 1

\* ------------------------------------------------------------------------
\* JavaScript string operations used by the code.

UpperCase == <<"A", "B", "C", "D", "E", "F", "G", "H", "I", "J", "K", "L", "M", "N", "O", "P", "Q", "R", "S", "T", "U", "V", "W", "X", "Y", "Z">>

LowerCase == <<"a", "b", "c", "d", "e", "f", "g", "h", "i", "j", "k", "l", "m", "n", "o", "p", "q", "r", "s", "t", "u", "v", "w", "x", "y", "z">>

\* The lower-case letter of each upper-case letter.
LowerOf ==
  [c \in {UpperCase[i] : i \in 1..Len(UpperCase)} |->
     LowerCase[CHOOSE i \in 1..Len(UpperCase) : UpperCase[i] = c]]

\* One character of String.prototype.toLowerCase.
LowerChar(c) == IF c \in DOMAIN LowerOf THEN LowerOf[c] ELSE c

\* String.prototype.toLowerCase.
toLowerCase(s) == [i \in 1..Len(s) |-> LowerChar(s[i])]

\* String.prototype.startsWith.
startsWith(s, prefix) ==
  /\ Len(prefix) <= Len(s)
  /\ SubSeq(s, 1, Len(prefix)) = prefix

\* String.prototype.includes.
includes(s, sub) ==
  \E i \in 1..(Len(s) - Len(sub) + 1) : SubSeq(s, i, i + Len(sub) - 1) = sub

RECURSIVE IndexFrom(_, _, _)
\* Index of the first occurrence of the character c in s at or after i, 0
\* when absent.
IndexFrom(s, c, i) ==
  IF i > Len(s) THEN 0 ELSE IF s[i] = c THEN i ELSE IndexFrom(s, c, i + 1)

\* Index of the first occurrence of the character c in s, 0 when absent.
IndexOfChar(s, c) == IndexFrom(s, c, 1)

RECURSIVE split(_, _)

\* split, the first separator being at i (0: none).
splitAt(s, sep, i) ==
  IF i = 0
  THEN <<s>>
  ELSE <<SubSeq(s, 1, i - 1)>> \o split(SubSeq(s, i + 1, Len(s)), sep)

\* String.prototype.split on a one-character separator: the sequence of
\* the pieces, always at least one ("a;b;" gives "a", "b", "").
split(s, sep) == splitAt(s, sep, IndexOfChar(s, sep))

\* White space that trim and Number strip.
WhiteSpace == {" ", "\t", "\n"}

RECURSIVE trimStart(_)
trimStart(s) ==
  IF s # <<>> /\ Head(s) \in WhiteSpace THEN trimStart(Tail(s)) ELSE s

RECURSIVE trimEnd(_)
trimEnd(s) ==
  IF s # <<>> /\ s[Len(s)] \in WhiteSpace
  THEN trimEnd(SubSeq(s, 1, Len(s) - 1))
  ELSE s

\* String.prototype.trim.
trim(s) == trimEnd(trimStart(s))

\* ------------------------------------------------------------------------
\* JavaScript numbers.

NaN == [nan |-> TRUE, m |-> 0, e |-> 0]

RECURSIVE Norm(_, _)
\* The number m * 10^e in normal form.
Norm(m, e) ==
  IF m = 0 THEN [nan |-> FALSE, m |-> 0, e |-> 0]
  ELSE IF m % 10 = 0 THEN Norm(m \div 10, e + 1)
  ELSE [nan |-> FALSE, m |-> m, e |-> e]

\* An integer as a number.
Int2Num(n) == Norm(n, 0)

\* The global isNaN, on a number.
isNaN(x) == x.nan

Digits == <<"0", "1", "2", "3", "4", "5", "6", "7", "8", "9", "a", "b", "c", "d", "e", "f">>

\* The value of each digit character.
DigitOf ==
  [c \in {Digits[i] : i \in 1..Len(Digits)} |->
     (CHOOSE i \in 1..Len(Digits) : Digits[i] = c) - 1]

\* The value of the digit c (0..15), or 16 when c is no digit.
DigitVal(c) == IF LowerChar(c) \in DOMAIN DigitOf THEN DigitOf[LowerChar(c)] ELSE 16

\* s is a sequence of digits of the radix (possibly empty).
AllDigits(s, radix) == \A i \in 1..Len(s) : DigitVal(s[i]) < radix

RECURSIVE DigitsVal(_, _)
\* The value of a sequence of digits in the radix.
DigitsVal(s, radix) ==
  IF s = <<>> THEN 0
  ELSE DigitsVal(SubSeq(s, 1, Len(s) - 1), radix) * radix + DigitVal(s[Len(s)])

\* The radix a NonDecimalIntegerLiteral prefix selects, 0 when s has none.
PrefixRadix(s) ==
  IF Len(s) < 2 \/ s[1] # "0" THEN 0
  ELSE IF LowerChar(s[2]) = "x" THEN 16
  ELSE IF LowerChar(s[2]) = "o" THEN 8
  ELSE IF LowerChar(s[2]) = "b" THEN 2
  ELSE 0

\* The digits of an exponent part, its sign apart.
ExponentDigits(expStr) ==
  IF expStr # <<>> /\ Head(expStr) \in {"+", "-"} THEN Tail(expStr) ELSE expStr

\* An exponent part is an optional sign and at least one digit.
ExponentOk(expStr) ==
  ExponentDigits(expStr) # <<>> /\ AllDigits(ExponentDigits(expStr), 10)

\* The value of an exponent part.
ExponentVal(expStr) ==
  IF expStr # <<>> /\ Head(expStr) = "-"
  THEN 0 - DigitsVal(ExponentDigits(expStr), 10)
  ELSE DigitsVal(ExponentDigits(expStr), 10)

\* The number of the integer digits ip and the fraction digits fp, times
\* 10^expVal: a number when both are digits and one of them is not empty.
DecimalOf(ip, fp, sign, expVal) ==
  IF AllDigits(ip, 10) /\ AllDigits(fp, 10) /\ Len(ip) + Len(fp) > 0
  THEN Norm(sign * DigitsVal(ip \o fp, 10), expVal - Len(fp))
  ELSE NaN

\* The mantissa mantStr, whose decimal point is at dot (0: none).
MantissaAt(mantStr, dot, sign, expVal) ==
  IF dot = 0 THEN DecimalOf(mantStr, <<>>, sign, expVal)
  ELSE DecimalOf(SubSeq(mantStr, 1, dot - 1),
                 SubSeq(mantStr, dot + 1, Len(mantStr)), sign, expVal)

\* The literal r, whose exponent mark is at ePos (0: none).
UnsignedDecimalAt(r, ePos, sign) ==
  IF ePos = 0 THEN MantissaAt(r, IndexOfChar(r, "."), sign, 0)
  ELSE IF ExponentOk(SubSeq(r, ePos + 1, Len(r)))
  THEN MantissaAt(SubSeq(r, 1, ePos - 1), IndexOfChar(SubSeq(r, 1, ePos - 1), "."),
                  sign, ExponentVal(SubSeq(r, ePos + 1, Len(r))))
  ELSE NaN

\* StrUnsignedDecimalLiteral, the literal Infinity apart: digits with an
\* optional fraction and an optional exponent; sign is 1 or -1.
UnsignedDecimal(r, sign) ==
  UnsignedDecimalAt(r, IndexOfChar(toLowerCase(r), "e"), sign)

\* A 0x/0o/0b literal t of the radix: an unsigned integer.
RadixLiteral(t, radix) ==
  IF Len(t) > 2 /\ AllDigits(SubSeq(t, 3, Len(t)), radix)
  THEN Int2Num(DigitsVal(SubSeq(t, 3, Len(t)), radix))
  ELSE NaN

\* StringToNumber of a string t without white space around it.
NumberOfTrimmed(t) ==
  IF t = <<>> THEN Int2Num(0)
  ELSE IF PrefixRadix(t) # 0 THEN RadixLiteral(t, PrefixRadix(t))
  ELSE IF Head(t) = "-" THEN UnsignedDecimal(Tail(t), -1)
  ELSE IF Head(t) = "+" THEN UnsignedDecimal(Tail(t), 1)
  ELSE UnsignedDecimal(t, 1)

\* Number(string): StringToNumber.  White space is stripped, the empty
\* string is 0, a 0x/0o/0b literal is an unsigned integer, anything else is
\* a signed decimal literal or NaN.  (The literal "Infinity" needs a capital
\* I, which no string that went through toLowerCase holds.)
Number(s) == NumberOfTrimmed(trim(s))

RECURSIVE NatToStr(_)
\* The decimal digits of a natural number, as a template literal prints it.
NatToStr(n) ==
  IF n < 10 THEN <<Digits[n + 1]>>
  ELSE NatToStr(n \div 10) \o <<Digits[(n % 10) + 1]>>

\* ------------------------------------------------------------------------
\* Inputs: the payloads the broker delivers and the Test button's draws.
\* A payload is a buffer or null.

Buf(text) == [null |-> FALSE, text |-> text]

NullPayload == [null |-> TRUE, text |-> <<>>]

\* Payloads the broker delivers.  Each carries what it is meant to say,
\* written down independently of parseMessage: its class and, for a
\* well-formed payload, the three numbers it spells.

Num(m, e) == [nan |-> FALSE, m |-> m, e |-> e]

\* Numeric literals: the text and the number it denotes.
L95 == [text |-> <<"9", "5">>, val |-> Num(95, 0)]

L40 == [text |-> <<"4", "0">>, val |-> Num(4, 1)]

L150 == [text |-> <<"1", "5", "0">>, val |-> Num(15, 1)]

L95p5 == [text |-> <<"9", "5", ".", "5">>, val |-> Num(955, -1)]

L40p2 == [text |-> <<"4", "0", ".", "2">>, val |-> Num(402, -1)]

L150p9 == [text |-> <<"1", "5", "0", ".", "9">>, val |-> Num(1509, -1)]

L1E2 == [text |-> <<"1", "E", "2">>, val |-> Num(1, 2)]

Lm3 == [text |-> <<"-", "3">>, val |-> Num(-3, 0)]

Lp50 == [text |-> <<".", "5", "0">>, val |-> Num(5, -1)]

\* The triples (average, min, max) the well-formed payloads carry.
Triples == { <<L95, L40, L150>>, <<L95p5, L40p2, L150p9>>, <<L1E2, Lm3, Lp50>> }

\* Texts that are no number.
NonNumbers == { <<"a", "b", "c">>, <<>>, <<" ", " ">>, <<"1", ",", "5">> }

\* The layouts of a three-field payload: letter case of the labels and the
\* white space around the values.
Layouts == {"plain", "irregular", "upper"}

Layout(l, a, m, M) ==
  IF l = "plain"
  THEN <<"A", "v", "e", "r", "a", "g", "e", ",", " ">> \o a \o <<";", " ", "M", "i", "n", ",", " ">> \o m \o <<";", " ", "M", "a", "x", ",", " ">> \o M \o <<";">>
  ELSE IF l = "irregular"
  THEN <<"a", "v", "e", "r", "a", "g", "e", ",">> \o a \o <<" ", ";", " ", "m", "i", "n", " ", ",", " ">> \o m \o <<";", " ", "m", "a", "x", ",", " ">> \o M \o <<";">>
  ELSE <<"A", "V", "E", "R", "A", "G", "E", ",", "\t">> \o a \o <<";", "M", "I", "N", ",">> \o m \o <<" ", " ", ";", "M", "A", "X", ",", " ", " ">> \o M

NoNum == NaN

Entry(class, text, a, m, M) ==
  [class |-> class, payload |-> Buf(text), average |-> a, min |-> m, max |-> M]

\* "Average, <a>; Min, <m>; Max, <M>;" with numeric a, m and M.
WellFormed ==
  { Entry("wellFormed", Layout(l, t[1].text, t[2].text, t[3].text),
          t[1].val, t[2].val, t[3].val) : l \in Layouts, t \in Triples }

\* Three fields with a comma each, the keywords, and one value no number.
NonNumeric ==
  { Entry("nonNumeric", Layout("plain", x, L40.text, L150.text), NoNum, NoNum, NoNum)
      : x \in NonNumbers }
  \cup
  { Entry("nonNumeric", Layout("plain", L95.text, x, L150.text), NoNum, NoNum, NoNum)
      : x \in NonNumbers }
  \cup
  { Entry("nonNumeric", Layout("plain", L95.text, L40.text, x), NoNum, NoNum, NoNum)
      : x \in NonNumbers }

\* One of the three keywords is missing.
NoKeyword ==
  { Entry("noKeyword", text, NoNum, NoNum, NoNum) :
      text \in { <<"T", "e", "m", "p", " ", "u", "p", "d", "a", "t", "e", ":", " ", "a", "l", "l", " ", "n", "o", "m", "i", "n", "a", "l">>,
                 <<"A", "v", "e", "r", "a", "g", "e", ",", " ", "9", "5", ";", " ", "M", "i", "x", ",", " ", "4", "0", ";", " ", "M", "a", "x", ",", " ", "1", "5", "0", ";">>,
                 <<"A", "v", "g", ",", " ", "9", "5", ";", " ", "M", "i", "n", ",", " ", "4", "0", ";", " ", "M", "a", "x", ",", " ", "1", "5", "0", ";">>,
                 <<"A", "v", "e", "r", "a", "g", "e", ",", " ", "9", "5", ";", " ", "M", "i", "n", ",", " ", "4", "0", ";">>,
                 <<>> } }
  \cup { [class |-> "noKeyword", payload |-> NullPayload, average |-> NoNum,
          min |-> NoNum, max |-> NoNum] }

\* The keywords are there, but a segment is missing or holds no comma.
Malformed ==
  { Entry("malformed", text, NoNum, NoNum, NoNum) :
      text \in { <<"a", "v", "e", "r", "a", "g", "e", " ", "m", "i", "n", " ", "m", "a", "x">>,
                 <<"A", "v", "e", "r", "a", "g", "e", ",", " ", "9", "5", ";", " ", "M", "i", "n", ",", " ", "4", "0", " ", "M", "a", "x", ",", " ", "1", "5", "0">>,
                 <<"A", "v", "e", "r", "a", "g", "e", " ", "9", "5", ";", " ", "M", "i", "n", ",", " ", "4", "0", ";", " ", "M", "a", "x", ",", " ", "1", "5", "0", ";">>,
                 <<"A", "v", "e", "r", "a", "g", "e", ",", " ", "9", "5", ";", " ", "M", "i", "n", " ", "4", "0", ";", " ", "M", "a", "x", ",", " ", "1", "5", "0", ";">>,
                 <<"A", "v", "e", "r", "a", "g", "e", ",", " ", "9", "5", ";", " ", "M", "i", "n", ",", " ", "4", "0", ";", " ", "M", "a", "x", " ", "1", "5", "0", ";">> } }

AllPayloads == WellFormed \cup NonNumeric \cup NoKeyword \cup Malformed

\* The payloads of the connection life cycle: one of each class.
LifePayloads ==
  { Entry("wellFormed", Layout("plain", L95.text, L40.text, L150.text),
          L95.val, L40.val, L150.val),
    Entry("noKeyword", <<"T", "e", "m", "p", " ", "u", "p", "d", "a", "t", "e", ":", " ", "a", "l", "l", " ", "n", "o", "m", "i", "n", "a", "l">>, NoNum, NoNum, NoNum),
    Entry("malformed", <<"a", "v", "e", "r", "a", "g", "e", " ", "m", "i", "n", " ", "m", "a", "x">>, NoNum, NoNum, NoNum) }

\* The least and the greatest value of Math.floor(Math.random() * 20 + 90)
\* (90..109), and one value each of the min (30..79) and the max (120..199).
AvgTests == {90, 109}

MinTests == {30}

MaxTests == {199}

\* The text testMessage builds for three drawn integers.
testText(avgTest, minTest, maxTest) ==
  <<"A", "v", "e", "r", "a", "g", "e", ",", " ">> \o NatToStr(avgTest) \o <<";", " ", "M", "i", "n", ",", " ">> \o NatToStr(minTest)
    \o <<";", " ", "M", "a", "x", ",", " ">> \o NatToStr(maxTest) \o <<";">>

\* Every text the model hands to parseMessage.
KnownTexts ==
  { IF p.payload.null THEN <<>> ELSE p.payload.text : p \in AllPayloads \cup LifePayloads }
  \cup { testText(a, m, M) : a \in AvgTests, m \in MinTests, M \in MaxTests }

\* ------------------------------------------------------------------------
\* The state of the App component.

VARIABLES
  brokerUrl,     \* useState(''): the broker URL input
  isConnected,   \* useState(false)
  status,        \* useState("Idle"): [k: the message, a: its interpolated text]
  latestRaw,     \* useState("")
  latestTopic,   \* useState("")
  latestTime,    \* useState(null): -1 is null
  messages,      \* useState([]): the series
  clientRef,     \* useRef(null): the handle held, 0 is null
  clients,       \* every handle mqtt.connect has returned, with the library's side of it
  now,           \* the wall clock at the last new Date()
  threw,         \* the last handler run ended in an uncaught exception
  accepted       \* history: payloads that passed every test of parseMessage

appVars == <<brokerUrl, isConnected, status, latestRaw, latestTopic,
             latestTime, messages, clientRef>>

vars == <<brokerUrl, isConnected, status, latestRaw, latestTopic,
          latestTime, messages, clientRef, clients, now, threw, accepted>>

Handles == 1..MaxHandles

\* A status string: the fixed text k and the text a interpolated into it.
St(k, a) == [k |-> k, a |-> a]

StIdle == St("Idle", <<>>)

StDisconnected == St("Disconnected", <<>>)

StSchemeRequired == St("Broker must use wss:// when app is served over HTTPS", <<>>)

StConnecting(url) == St("Connecting to ${brokerUrl} ...", url)

StSubscribing == St("Connected. Subscribing...", <<>>)

StSubscribed == St("Subscribed to: ${topic}", <<>>)

StReconnecting == St("Reconnecting...", <<>>)

StClosed == St("Connection closed", <<>>)

StOffline == St("Offline", <<>>)

\* err.message || String(err), for an Error object.
ErrText(err) == IF err.message # <<>> THEN err.message ELSE <<"E", "r", "r", "o", "r">>

StSubscribeError(err) == St("Subscribe error: ${err}", ErrText(err))

StError(err) == St("Error: ${err}", ErrText(err))

\* The scheme connect asks of the broker URL.
SecureScheme == <<"w", "s", "s", ":", "/", "/">>

\* ------------------------------------------------------------------------
\* Inputs.

\* What the user types into the broker URL input.
Urls == { <<>>, <<"w", "s", "s", ":", "/", "/", "b">>, <<"w", "s", ":", "/", "/", "b">> }

\* The topics of the messages the broker delivers.
MsgTopics == { <<"s">> }

\* Errors the library hands to the error and subscribe callbacks.
Errs == { [message |-> <<"r", "e", "f", "u", "s", "e", "d">>], [message |-> <<>>] }

\* The ways c.end(true) can return: normally or by throwing.
EndResults == {"ok", "threw"}

\* Time that can pass between two readings of the clock.
ClockSteps == 0..1

\* ------------------------------------------------------------------------
\* parseMessage.

\* a[k] of JavaScript, k counted from 0: undefined past the end.
At(a, k) ==
  IF k + 1 <= Len(a) THEN [undef |-> FALSE, v |-> a[k + 1]]
  ELSE [undef |-> TRUE, v |-> <<>>]

\* .split(',')[1].trim() on a segment: .trim throws on undefined, when the
\* segment holds no comma.
valueText(f) == [threw |-> f.undef, v |-> trim(f.v)]

\* .split(',')[1].trim() on messageValues[k]: .split throws on undefined,
\* when the segment is missing.
segmentValue(seg) ==
  IF seg.undef THEN [threw |-> TRUE, v |-> <<>>]
  ELSE valueText(At(split(seg.v, ","), 1))

\* fieldText reading the fields in the order max, min, average.
fieldTextReversed(messageValues, k) == segmentValue(At(messageValues, 2 - k))

\* messageValues[k].split(',')[1].trim(): its text, or threw when the
\* expression throws a TypeError.
fieldText(messageValues, k) == segmentValue(At(messageValues, k))

\* The keyword test with || for &&.
hasAnyKeyword(messageLower) ==
  \/ includes(messageLower, <<"a", "v", "e", "r", "a", "g", "e">>)
  \/ includes(messageLower, <<"m", "i", "n">>)
  \/ includes(messageLower, <<"m", "a", "x">>)

\* The keyword test of parseMessage, on the lower-cased message.
hasKeywords(messageLower) ==
  /\ includes(messageLower, <<"a", "v", "e", "r", "a", "g", "e">>)
  /\ includes(messageLower, <<"m", "i", "n">>)
  /\ includes(messageLower, <<"m", "a", "x">>)

\* What parseMessage makes of a message: kind "dropped" (a keyword is
\* missing), "threw" (a TypeError leaves the function), "nan" (a value is
\* NaN) or "sample" (with the three numbers).
Outcome(kind, messageAverage, messageMin, messageMax) ==
  [kind |-> kind, average |-> messageAverage, min |-> messageMin,
   max |-> messageMax]

\* The isNaN test on the three numbers.
interpretNumbers(messageAverage, messageMin, messageMax) ==
  IF ~isNaN(messageAverage) /\ ~isNaN(messageMin) /\ ~isNaN(messageMax)
  THEN Outcome("sample", messageAverage, messageMin, messageMax)
  ELSE Outcome("nan", NaN, NaN, NaN)

\* The three Number(...) calls, which run when none of the three
\* expressions threw.
interpretFields(f0, f1, f2) ==
  IF f0.threw \/ f1.threw \/ f2.threw
  THEN Outcome("threw", NaN, NaN, NaN)
  ELSE interpretNumbers(Number(f0.v), Number(f1.v), Number(f2.v))

\* The fields 0, 1 and 2 of messageValues.
interpretValues(messageValues) ==
  interpretFields(fieldText(messageValues, 0), fieldText(messageValues, 1),
                  fieldText(messageValues, 2))

\* The keyword test, then the split on ';'.
interpretLower(messageLower) ==
  IF ~hasKeywords(messageLower)
  THEN Outcome("dropped", NaN, NaN, NaN)
  ELSE interpretValues(split(messageLower, ";"))

\* parseMessage up to its setMessages call.
interpretText(message) == interpretLower(toLowerCase(message))

\* interpretText on every text of the model, worked out once.
Interpretations == [text \in KnownTexts |-> interpretText(text)]

interpret(message) ==
  IF message \in DOMAIN Interpretations THEN Interpretations[message]
  ELSE interpretText(message)

\* setMessages(prev => [parsedMessage, ...prev]).
prependMessage(prev, parsedMessage) == <<parsedMessage>> \o prev

\* setMessages(prev => [...prev, parsedMessage]).
appendMessage(prev, parsedMessage) == Append(prev, parsedMessage)

\* The end of parseMessage on the outcome r: the series it leaves, whether
\* it threw and whether it took the message.
parsedMessage(prev, r, t) ==
  [messages |-> IF r.kind = "sample"
                THEN appendMessage(prev, [time |-> t, min |-> r.min,
                                          max |-> r.max, average |-> r.average])
                ELSE prev,
   threw |-> r.kind = "threw",
   accepted |-> r.kind = "sample"]

\* parseMessage(message) at time t on the series prev.
parseMessage(prev, message, t) == parsedMessage(prev, interpret(message), t)

\* payload?.toString?.() ?? "": a payload is a buffer or null.
rawOf(payload) == IF payload.null THEN <<>> ELSE payload.text

\* ------------------------------------------------------------------------
\* The handlers.

\* A handle mqtt.connect has not returned yet.
NoClient ==
  [lib |-> "none", endCalls |-> 0, endThrew |-> FALSE, subPending |-> FALSE,
   closePending |-> FALSE]

Init ==
  /\ brokerUrl = <<>>
  /\ isConnected = FALSE
  /\ status = StIdle
  /\ latestRaw = <<>>
  /\ latestTopic = <<>>
  /\ latestTime = -1
  /\ messages = <<>>
  /\ clientRef = 0
  /\ clients = [h \in Handles |-> NoClient]
  /\ now = 0
  /\ threw = FALSE
  /\ accepted = 0

\* onChange of the broker URL input.
setBrokerUrl(u) ==
  /\ u # brokerUrl
  /\ brokerUrl' = u
  /\ threw' = FALSE
  /\ UNCHANGED <<isConnected, status, latestRaw, latestTopic, latestTime,
                 messages, clientRef, clients, now, accepted>>

\* c.end(true) on the handle c, returning as res says: the library's side.
\* A forced end stops the handle for good, whether the call returns or
\* throws: the library emits no connect, reconnect, offline, error or
\* message for it any more, but it still emits the close of the connection
\* it had and fails a subscribe in flight.
endClient(cl, c, res) ==
  [cl EXCEPT ![c].endCalls = @ + 1,
             ![c].endThrew = (res = "threw"),
             ![c].lib = "ended",
             ![c].closePending = TRUE]

\* teardown that drops the handle without ending it.
teardownWithoutEnd(cl, c, res) == cl

\* The part of disconnect that works on the handle: end it inside try/catch
\* when one is held.
teardown(cl, c, res) == IF c # 0 THEN endClient(cl, c, res) ELSE cl

\* disconnect() without clientRef.current = null.
disconnectKeepsRef ==
  /\ \E res \in EndResults : clients' = teardown(clients, clientRef, res)
  /\ clientRef' = clientRef
  /\ isConnected' = FALSE
  /\ status' = StDisconnected
  /\ threw' = FALSE
  /\ UNCHANGED <<brokerUrl, latestRaw, latestTopic, latestTime, messages,
                 now, accepted>>

\* disconnect().
disconnect ==
  /\ \E res \in EndResults : clients' = teardown(clients, clientRef, res)
  /\ clientRef' = 0
  /\ isConnected' = FALSE
  /\ status' = StDisconnected
  /\ threw' = FALSE
  /\ UNCHANGED <<brokerUrl, latestRaw, latestTopic, latestTime, messages,
                 now, accepted>>

\* connect() with a broker URL that fails the scheme test.
connectRejected ==
  /\ ~startsWith(brokerUrl, SecureScheme)
  /\ status' = StSchemeRequired
  /\ threw' = FALSE
  /\ UNCHANGED <<brokerUrl, isConnected, latestRaw, latestTopic, latestTime,
                 messages, clientRef, clients, now, accepted>>

\* The handle mqtt.connect returns: the next one not yet handed out.
newHandle(cl) == CHOOSE h \in Handles : cl[h].lib = "none" /\ \A g \in 1..(h - 1) : cl[g].lib # "none"

\* connect() with a broker URL that passes: disconnect(), then mqtt.connect
\* and clientRef.current = client; the handlers subscribe.
connectAccepted ==
  /\ startsWith(brokerUrl, SecureScheme)
  /\ \E h \in Handles : clients[h].lib = "none"
  /\ \E res \in EndResults :
       LET torn == teardown(clients, clientRef, res)
           c    == newHandle(clients)
       IN /\ clients' = [torn EXCEPT ![c] = [NoClient EXCEPT !.lib = "connecting"]]
          /\ clientRef' = c
  /\ isConnected' = FALSE
  /\ status' = StConnecting(brokerUrl)
  /\ threw' = FALSE
  /\ UNCHANGED <<brokerUrl, latestRaw, latestTopic, latestTime, messages,
                 now, accepted>>

\* connect() that calls disconnect() before it tests the scheme.
connectTeardownFirst ==
  \/ /\ ~startsWith(brokerUrl, SecureScheme)
     /\ \E res \in EndResults : clients' = teardown(clients, clientRef, res)
     /\ clientRef' = 0
     /\ isConnected' = FALSE
     /\ status' = StSchemeRequired
     /\ threw' = FALSE
     /\ UNCHANGED <<brokerUrl, latestRaw, latestTopic, latestTime, messages,
                    now, accepted>>
  \/ connectAccepted

\* connect(): the Connect / Reconnect button.
connect == connectRejected \/ connectAccepted

\* client.on("connect"): the library has the connection up.
onConnect(h) ==
  /\ clients[h].lib = "connecting"
  /\ clients' = [clients EXCEPT ![h].lib = "connected", ![h].subPending = TRUE]
  /\ isConnected' = TRUE
  /\ status' = StSubscribing
  /\ threw' = FALSE
  /\ UNCHANGED <<brokerUrl, latestRaw, latestTopic, latestTime, messages,
                 clientRef, now, accepted>>

\* The callback of client.subscribe, with an error or without; the
\* subscribe of a closed connection fails.
onSubscribe(h, failed, err) ==
  /\ clients[h].subPending
  /\ clients[h].lib \in {"ended", "closed"} => failed
  /\ clients' = [clients EXCEPT ![h].subPending = FALSE]
  /\ status' = IF failed THEN StSubscribeError(err) ELSE StSubscribed
  /\ threw' = FALSE
  /\ UNCHANGED <<brokerUrl, isConnected, latestRaw, latestTopic, latestTime,
                 messages, clientRef, now, accepted>>

\* client.on("reconnect"): the library starts over after its reconnect period.
onReconnect(h) ==
  /\ clients[h].lib = "closed"
  /\ clients' = [clients EXCEPT ![h].lib = "connecting"]
  /\ status' = StReconnecting
  /\ threw' = FALSE
  /\ UNCHANGED <<brokerUrl, isConnected, latestRaw, latestTopic, latestTime,
                 messages, clientRef, now, accepted>>

\* The close handler also dropping the handle held.
onCloseDropsRef(h) ==
  /\ \/ clients[h].lib \in {"connecting", "connected"}
     \/ clients[h].lib = "ended" /\ clients[h].closePending
  /\ clients' = [clients EXCEPT ![h].lib = IF @ = "ended" THEN "ended" ELSE "closed",
                                ![h].closePending = FALSE]
  /\ clientRef' = 0
  /\ isConnected' = FALSE
  /\ status' = StClosed
  /\ threw' = FALSE
  /\ UNCHANGED <<brokerUrl, latestRaw, latestTopic, latestTime, messages,
                 now, accepted>>

\* client.on("close"): the connection of the handle went down, by itself or
\* because the handle was ended.
onClose(h) ==
  /\ \/ clients[h].lib \in {"connecting", "connected"}
     \/ clients[h].lib = "ended" /\ clients[h].closePending
  /\ clients' = [clients EXCEPT ![h].lib = IF @ = "ended" THEN "ended" ELSE "closed",
                                ![h].closePending = FALSE]
  /\ isConnected' = FALSE
  /\ status' = StClosed
  /\ threw' = FALSE
  /\ UNCHANGED <<brokerUrl, latestRaw, latestTopic, latestTime, messages,
                 clientRef, now, accepted>>

\* client.on("offline").
onOffline(h) ==
  /\ clients[h].lib = "closed"
  /\ isConnected' = FALSE
  /\ status' = StOffline
  /\ threw' = FALSE
  /\ UNCHANGED <<brokerUrl, latestRaw, latestTopic, latestTime, messages,
                 clientRef, clients, now, accepted>>

\* client.on("error").
onError(h, err) ==
  /\ clients[h].lib \in {"connecting", "connected", "closed"}
  /\ status' = StError(err)
  /\ threw' = FALSE
  /\ UNCHANGED <<brokerUrl, isConnected, latestRaw, latestTopic, latestTime,
                 messages, clientRef, clients, now, accepted>>

\* The message handler on the text raw, r being what parseMessage makes of
\* it.
onMessageParsed(h, msgTopic, raw, d1, d2, r) ==
  /\ clients[h].lib = "connected"
  /\ Len(messages) < MaxSeries
  /\ now + d1 + d2 <= MaxTime
  /\ latestTopic' = msgTopic
  /\ latestTime' = now + d1
  /\ latestRaw' = raw
  /\ messages' = r.messages
  /\ threw' = r.threw
  /\ accepted' = accepted + (IF r.accepted THEN 1 ELSE 0)
  /\ now' = now + d1 + d2
  /\ UNCHANGED <<brokerUrl, isConnected, status, clientRef, clients>>

\* The message handler on the text raw of the payload.
onMessageRaw(h, msgTopic, raw, d1, d2) ==
  onMessageParsed(h, msgTopic, raw, d1, d2,
                  parseMessage(messages, raw, now + d1 + d2))

\* client.on("message"): the three setLatest calls, then parseMessage(raw).
\* The clock is read twice, d1 after the last reading and d2 after that.
onMessage(h, msgTopic, payload, d1, d2) ==
  onMessageRaw(h, msgTopic, rawOf(payload), d1, d2)

\* The Test button, r being what parseMessage makes of its text.
testMessageParsed(d, r) ==
  /\ Len(messages) < MaxSeries
  /\ now + d <= MaxTime
  /\ messages' = r.messages
  /\ threw' = r.threw
  /\ accepted' = accepted + (IF r.accepted THEN 1 ELSE 0)
  /\ now' = now + d
  /\ UNCHANGED <<brokerUrl, isConnected, status, latestRaw, latestTopic,
                 latestTime, clientRef, clients>>

\* testMessage(): the Test button.  The clock is read d after the last
\* reading.
testMessage(avgTest, minTest, maxTest, d) ==
  testMessageParsed(d, parseMessage(messages, testText(avgTest, minTest, maxTest),
                                    now + d))

\* ------------------------------------------------------------------------
\* Specifications.

\* The application: every handler, under any interleaving of user actions
\* and library callbacks.
Next ==
  \/ \E u \in Urls : setBrokerUrl(u)
  \/ connect
  \/ disconnect
  \/ \E h \in Handles : onConnect(h)
  \/ \E h \in Handles, failed \in BOOLEAN, err \in Errs : onSubscribe(h, failed, err)
  \/ \E h \in Handles : onReconnect(h)
  \/ \E h \in Handles : onClose(h)
  \/ \E h \in Handles : onOffline(h)
  \/ \E h \in Handles, err \in Errs : onError(h, err)
  \/ \E h \in Handles, t \in MsgTopics, p \in LifePayloads, d1 \in ClockSteps, d2 \in ClockSteps :
       onMessage(h, t, p.payload, d1, d2)
  \/ \E a \in AvgTests, m \in MinTests, M \in MaxTests, d \in ClockSteps :
       testMessage(a, m, M, d)

Spec == Init /\ [][Next]_vars

\* The connection life cycle alone: the user actions and library callbacks
\* that work on the handle, the connected flag and the status.
NextConn ==
  \/ \E u \in Urls : setBrokerUrl(u)
  \/ connect
  \/ disconnect
  \/ \E h \in Handles : onConnect(h)
  \/ \E h \in Handles, failed \in BOOLEAN, err \in Errs : onSubscribe(h, failed, err)
  \/ \E h \in Handles : onReconnect(h)
  \/ \E h \in Handles : onClose(h)
  \/ \E h \in Handles : onOffline(h)
  \/ \E h \in Handles, err \in Errs : onError(h, err)

SpecConn == Init /\ [][NextConn]_vars

\* The series: incoming messages, test messages, connect and disconnect.
NextSeries ==
  \/ \E u \in Urls : setBrokerUrl(u)
  \/ connect
  \/ disconnect
  \/ \E h \in Handles : onConnect(h)
  \/ \E h \in Handles, t \in MsgTopics, p \in LifePayloads, d1 \in ClockSteps, d2 \in ClockSteps :
       onMessage(h, t, p.payload, d1, d2)
  \/ \E a \in AvgTests, m \in MinTests, M \in MaxTests, d \in ClockSteps :
       testMessage(a, m, M, d)

SpecSeries == Init /\ [][NextSeries]_vars

\* The message interpreter: a connected, subscribed client receiving every
\* payload of the table.  InitParse is the state SpecConn is in after
\* setBrokerUrl("wss://b"), connect, onConnect and a successful onSubscribe.
InitParse ==
  /\ brokerUrl = <<"w", "s", "s", ":", "/", "/", "b">>
  /\ isConnected = TRUE
  /\ status = StSubscribed
  /\ latestRaw = <<>>
  /\ latestTopic = <<>>
  /\ latestTime = -1
  /\ messages = <<>>
  /\ clientRef = 1
  /\ clients = [h \in Handles |->
                  IF h = 1 THEN [NoClient EXCEPT !.lib = "connected"]
                  ELSE NoClient]
  /\ now = 0
  /\ threw = FALSE
  /\ accepted = 0

NextParse ==
  \/ \E h \in Handles, t \in MsgTopics, p \in AllPayloads, d1 \in ClockSteps, d2 \in ClockSteps :
       onMessage(h, t, p.payload, d1, d2)
  \/ \E a \in AvgTests, m \in MinTests, M \in MaxTests, d \in ClockSteps :
       testMessage(a, m, M, d)

SpecParse == InitParse /\ [][NextParse]_vars

\* ------------------------------------------------------------------------
\* The claims.

\* mqtt.connect has returned the handle h.
Created(h) == clients[h].lib # "none"

\* The application has called end on the handle h.
TornDown(h) == clients[h].endCalls > 0

\* A library callback of the handle h other than message runs.
EventOf(h) ==
  \/ onConnect(h)
  \/ \E failed \in BOOLEAN, err \in Errs : onSubscribe(h, failed, err)
  \/ onReconnect(h)
  \/ onClose(h)
  \/ onOffline(h)
  \/ \E err \in Errs : onError(h, err)

\* The message handler runs on a payload of the set P.
MessageOf(P) ==
  \E h \in Handles, t \in MsgTopics, p \in P, d1 \in ClockSteps, d2 \in ClockSteps :
    onMessage(h, t, p.payload, d1, d2)

SampleAt(t, a, m, M) == [time |-> t, min |-> m, max |-> M, average |-> a]

IsPrefix(s, t) == Len(s) <= Len(t) /\ SubSeq(t, 1, Len(s)) = s

\* C1: at most one connection handle is live.  Every handle mqtt.connect
\* has returned, other than the one clientRef holds, has been ended (end was
\* called on it and the library has stopped it), also when that end call
\* threw; the handle clientRef holds has not been ended; so at most one
\* handle is not ended.
C1_AtMostOneLiveHandle ==
  /\ \A h \in Handles :
       Created(h) /\ h # clientRef => TornDown(h) /\ clients[h].lib = "ended"
  /\ clientRef # 0 =>
       Created(clientRef) /\ ~TornDown(clientRef) /\ clients[clientRef].lib # "ended"
  /\ Cardinality({h \in Handles : Created(h) /\ clients[h].lib # "ended"}) <= 1

\* A second connection is up after the end call on the first one threw.
C1_Witness ==
  /\ clientRef = 2
  /\ clients[2].lib = "connected"
  /\ clients[1].endThrew

\* C2: connect() with a broker URL that does not start with wss:// only sets
\* the status to the scheme message: it creates no handle, does not end or
\* replace the handle held, and leaves the connected flag, the series and
\* the latest-message fields as they were.
C2_RejectedConnectOnlySetsStatus ==
  [][(connect /\ ~startsWith(brokerUrl, SecureScheme)) =>
       /\ status' = StSchemeRequired
       /\ UNCHANGED <<brokerUrl, isConnected, latestRaw, latestTopic, latestTime,
                      messages, clientRef, clients, accepted>>]_vars

\* A connect was rejected while a connection was up and the series held a
\* sample: all of it is still there.
C2_Witness ==
  /\ status = StSchemeRequired
  /\ clientRef # 0
  /\ clients[clientRef].lib = "connected"
  /\ isConnected
  /\ Len(messages) > 0

\* C3: a well-formed payload "Average, <a>; Min, <m>; Max, <M>;", in any
\* letter case of the labels and with any white space around the values,
\* appends exactly one sample, whose average, min and max are the numbers a,
\* m and M of fields 0, 1 and 2; so does the text the Test button builds.
C3_WellFormedAppendsExactSample ==
  [][/\ \A p \in WellFormed, h \in Handles, t \in MsgTopics,
          d1 \in ClockSteps, d2 \in ClockSteps :
          onMessage(h, t, p.payload, d1, d2) =>
            messages' = Append(messages,
                               SampleAt(now + d1 + d2, p.average, p.min, p.max))
     /\ \A a \in AvgTests, m \in MinTests, M \in MaxTests, d \in ClockSteps :
          testMessage(a, m, M, d) =>
            messages' = Append(messages,
                               SampleAt(now + d, Int2Num(a), Int2Num(m),
                                        Int2Num(M)))]_vars

\* "average,95.5 ; min , 40.2; max, 150.9;" has arrived and its sample is the
\* last of the series.
C3_Witness ==
  /\ latestRaw = Layout("irregular", L95p5.text, L40p2.text, L150p9.text)
  /\ messages # <<>>
  /\ messages[Len(messages)].average = Num(955, -1)
  /\ messages[Len(messages)].min = Num(402, -1)
  /\ messages[Len(messages)].max = Num(1509, -1)

\* C4: a payload that holds the three keywords but lacks a segment, or a
\* comma in one of its first three segments, is rejected cleanly: the
\* handler does not throw and the series is unchanged.
C4_MalformedRejectedCleanly ==
  [][MessageOf(Malformed) => ~threw' /\ messages' = messages]_vars

\* C5: a payload with the three keywords and three segments with a comma
\* each, one of whose values is no number (the empty and the blank value
\* included), appends no sample.
C5_NonNumericAppendsNothing ==
  [][MessageOf(NonNumeric) => messages' = messages]_vars

\* C6: a payload whose lower-cased text lacks one of "average", "min" and
\* "max" is dropped silently, every time it arrives: no sample is appended,
\* the series is unchanged and nothing is thrown.
C6_NoKeywordDropped ==
  [][MessageOf(NoKeyword) =>
       messages' = messages /\ accepted' = accepted /\ ~threw']_vars

\* "Average, 95; Mix, 40; Max, 150;" has arrived after a sample and left the
\* series alone.
C6_Witness ==
  /\ latestRaw = <<"A", "v", "e", "r", "a", "g", "e", ",", " ", "9", "5", ";", " ", "M", "i", "x", ",", " ", "4", "0", ";", " ", "M", "a", "x", ",", " ", "1", "5", "0", ";">>
  /\ ~threw
  /\ Len(messages) = 1
  /\ latestTime > messages[1].time

\* C7: the series is append-only.  Its length is the number of payloads
\* accepted so far, its times never decrease along it, and every step, a
\* disconnect or a reconnect included, leaves the samples it held in place
\* and adds at most one after them.
C7_SeriesAppendOnly ==
  /\ [](/\ Len(messages) = accepted
        /\ \A i \in 1..(Len(messages) - 1) : messages[i].time <= messages[i + 1].time)
  /\ [][IsPrefix(messages, messages') /\ Len(messages') <= Len(messages) + 1]_vars

\* Two samples of different times and values, taken over two connections,
\* both of them ended by now.
C7_Witness ==
  /\ Len(messages) = 2
  /\ messages[1].time < messages[2].time
  /\ messages[1].average # messages[2].average
  /\ clientRef = 0
  /\ clients[2].lib = "ended"

\* C8 as stated: a connection event other than message changes the status
\* string only, and a message event never changes the status string.
C8_EventsChangeStatusOnly ==
  [][/\ (\E h \in Handles : EventOf(h)) =>
          UNCHANGED <<brokerUrl, isConnected, latestRaw, latestTopic, latestTime,
                      messages, clientRef>>
     /\ MessageOf(LifePayloads) => status' = status]_vars

\* C8 amended: a connection event other than message changes the status
\* string and the connected flag only (connect sets the flag, close and
\* offline clear it, the subscribe result, reconnect and error leave it);
\* the handle held, the series and the latest-message fields stay; and a
\* message event changes neither the status string, nor the flag, nor the
\* handle held.
C8_EventsChangeStatusAndFlagOnly ==
  [][/\ (\E h \in Handles : EventOf(h)) =>
          UNCHANGED <<brokerUrl, latestRaw, latestTopic, latestTime, messages,
                      clientRef, accepted>>
     /\ (\E h \in Handles : onConnect(h)) => isConnected'
     /\ (\E h \in Handles : onClose(h) \/ onOffline(h)) => ~isConnected'
     /\ (\E h \in Handles :
           \/ \E failed \in BOOLEAN, err \in Errs : onSubscribe(h, failed, err)
           \/ onReconnect(h)
           \/ \E err \in Errs : onError(h, err)) => isConnected' = isConnected
     /\ MessageOf(LifePayloads) => UNCHANGED <<status, isConnected, clientRef>>]_vars

\* The connection went offline after a message: the handle is still held,
\* the series and the latest message are still there.
C8_Witness ==
  /\ status = StOffline
  /\ ~isConnected
  /\ clientRef # 0
  /\ Len(messages) > 0
  /\ latestRaw # <<>>

\* C9: disconnect() is idempotent and safe without a connection.  It leaves
\* no handle held, the connected flag false and the status "Disconnected",
\* and throws nothing; with no handle held it ends nothing; run again right
\* after itself it changes nothing; and no handle is ever ended twice.
C9_DisconnectIdempotent ==
  [][disconnect =>
       /\ clientRef' = 0 /\ ~isConnected' /\ status' = StDisconnected /\ ~threw'
       /\ \A h \in Handles : clients'[h].endCalls <= 1
       /\ clientRef = 0 => clients' = clients
       /\ (clientRef = 0 /\ ~isConnected /\ status = StDisconnected /\ ~threw)
            => UNCHANGED vars]_vars

\* A disconnect has ended a handle, whose end call threw.
C9_Witness ==
  /\ status = StDisconnected
  /\ clientRef = 0
  /\ ~isConnected
  /\ \E h \in Handles : clients[h].endCalls = 1 /\ clients[h].endThrew

\* C10: the connection state displayed belongs to the handle held.  The
\* connected flag is true only if clientRef holds a handle whose connection
\* is up, and no callback of a handle that was torn down changes the
\* connected flag or the status string.
C10_DisplayBelongsToCurrentHandle ==
  [][/\ isConnected' => (clientRef' # 0 /\ clients'[clientRef'].lib = "connected")
     /\ \A h \in Handles :
          (TornDown(h) /\ EventOf(h)) => UNCHANGED <<isConnected, status>>]_vars

====
